---- MODULE Spec2Model ----
(***************************************************************************)
(* The hardware-button finite state machine of                             *)
(* apps/system/js/hardware_buttons.js.                                     *)
(*                                                                         *)
(* Raw signals (mozChromeEvents) and timer expiries are the inputs; the    *)
(* high-level events handed to fire() are the outputs.  The timer service  *)
(* is the set `pending` of armed single-shot timers, each carrying the     *)
(* callback it was armed with.  Time is abstracted: any pending timer may  *)
(* expire between any two signals.                                         *)
(***************************************************************************)
EXTENDS Integers, Sequences, FiniteSets, TLC

VARIABLES
  state,          \* `state`, the FSM's current state object (line 66)
  homeTimer,      \* homeState.timer, 0 for null (line 140)
  sleepTimer,     \* sleepState.timer (line 177)
  volumeTimer,    \* volumeState.timer (line 215)
  wakeTimer,      \* wakeState.timer (line 279)
  direction,      \* volumeState.direction (line 214)
  repeating,      \* volumeState.repeating (line 216)
  delegateState,  \* wakeState.delegateState (line 280)
  pending,        \* timers armed with setTimeout and neither fired nor cleared
  screenEnabled,  \* ScreenManager.screenEnabled (lines 104, 114)
  inp,            \* the input handled by the last step
  out,            \* the events fired by the last step, in order
  err,            \* whether the last step called console.error
  held,           \* buttons pressed and not released since
  log,            \* the steps since the last press processed in baseState
  logScr,         \* screenEnabled when that press was processed
  observe,        \* what is recorded: "log", "watch" (the monitors) or "none"
  gesture,        \* the current period with a button held: has it fired yet
  since,          \* short-press and hold events of Home, Sleep since its press
  leftover,       \* buttons of a fired combination that are still held
  loaded,         \* LazyLoader._loaded: the files marked loaded
  isLoading,      \* LazyLoader._isLoading: file -> its script element, 0 if none
  head,           \* the elements appended to document.head, in order
  calls           \* the load() calls made: files, loadsRemaining, callback runs

vars == <<state, homeTimer, sleepTimer, volumeTimer, wakeTimer, direction,
          repeating, delegateState, pending, screenEnabled, inp, out, err,
          held, log, logScr, observe, gesture, since, leftover,
          loaded, isLoading, head, calls>>

\* The state of the LazyLoader
loaderVars == <<loaded, isLoading, head, calls>>

\* The state of the hardware-button machine and of its observers
buttonVars == <<state, homeTimer, sleepTimer, volumeTimer, wakeTimer,
                direction, repeating, delegateState, pending, screenEnabled,
                inp, out, err, held, log, logScr, observe, gesture, since,
                leftover>>

\* Steps kept in `log` for one gesture; a longer gesture stops being recorded.
MaxLog == 4

\* load() calls made in one behaviour, and files listed in one call
MaxCalls == 2
MaxList == 2

HOLD_INTERVAL == 1500
REPEAT_DELAY == 700
REPEAT_INTERVAL == 100

Buttons == {"home", "sleep", "volume-up", "volume-down"}

Presses == {"home-button-press", "sleep-button-press",
            "volume-up-button-press", "volume-down-button-press"}

Releases == {"home-button-release", "sleep-button-release",
             "volume-up-button-release", "volume-down-button-release"}

\* The detail.type values the mozChromeEvent listener passes on
Signals == Presses \cup Releases

Button(type) ==
  CASE type \in {"home-button-press", "home-button-release"} -> "home"
    [] type \in {"sleep-button-press", "sleep-button-release"} -> "sleep"
    [] type \in {"volume-up-button-press", "volume-up-button-release"} -> "volume-up"
    [] OTHER -> "volume-down"

PressOf(b) == CHOOSE t \in Presses : Button(t) = b
ReleaseOf(b) == CHOOSE t \in Releases : Button(t) = b

\* The machine as one value, so that the handlers compose as in the source
Machine ==
  [state |-> state, homeTimer |-> homeTimer, sleepTimer |-> sleepTimer,
   volumeTimer |-> volumeTimer, wakeTimer |-> wakeTimer,
   direction |-> direction, repeating |-> repeating,
   delegateState |-> delegateState, pending |-> pending,
   out |-> <<>>, err |-> FALSE]

fire(m, type) == [m EXCEPT !.out = Append(@, type)]

consoleError(m) == [m EXCEPT !.err = TRUE]

\* A handle setTimeout has not handed out to any live timer or field
NewHandle(m) ==
  LET used == {t.id : t \in m.pending}
                \cup {m.homeTimer, m.sleepTimer, m.volumeTimer, m.wakeTimer}
  IN  CHOOSE i \in 1..(Cardinality(used) + 1) :
        i \notin used /\ \A j \in 1..(i - 1) : j \in used

\* setTimeout(callback, delay): the callback is named by its owner and the
\* `type` its closure captured
setTimeout(m, id, owner, delay, type) ==
  [m EXCEPT !.pending = @ \cup
     {[id |-> id, owner |-> owner, delay |-> delay, type |-> type]}]

clearTimeout(m, id) == [m EXCEPT !.pending = {t \in @ : t.id # id}]

homeState_enter(m) ==
  LET id == NewHandle(m)
  IN  [setTimeout(m, id, "homeState", HOLD_INTERVAL, "none")
         EXCEPT !.homeTimer = id]

\* homeState without an exit method
homeState_exit_missing(m) == m

homeState_exit(m) ==
  IF m.homeTimer # 0
    THEN [clearTimeout(m, m.homeTimer) EXCEPT !.homeTimer = 0]
    ELSE m

\* sleepState.enter arming no timer
sleepState_enter_noTimer(m) == m

sleepState_enter(m) ==
  LET id == NewHandle(m)
  IN  [setTimeout(m, id, "sleepState", HOLD_INTERVAL, "none")
         EXCEPT !.sleepTimer = id]

sleepState_exit(m) ==
  IF m.sleepTimer # 0
    THEN [clearTimeout(m, m.sleepTimer) EXCEPT !.sleepTimer = 0]
    ELSE m

\* volumeState.enter without `this.repeating = false`
volumeState_enter_keepsRepeating(m, type) ==
  LET id == NewHandle(m)
  IN  [setTimeout(m, id, "volumeState", REPEAT_DELAY, "none")
         EXCEPT !.direction = type, !.volumeTimer = id]

volumeState_enter(m, type) ==
  LET id == NewHandle(m)
  IN  [setTimeout(m, id, "volumeState", REPEAT_DELAY, "none")
         EXCEPT !.direction = type, !.repeating = FALSE, !.volumeTimer = id]

\* volumeState.exit dropping the handle without clearTimeout
volumeState_exit_leaksTimer(m) == [m EXCEPT !.volumeTimer = 0]

volumeState_exit(m) ==
  IF m.volumeTimer # 0
    THEN [clearTimeout(m, m.volumeTimer) EXCEPT !.volumeTimer = 0]
    ELSE m

\* wakeState.enter whose timer callback tests the wrong press type
wakeState_enter_wrongType(m, type) ==
  LET id == NewHandle(m)
      m1 == [m EXCEPT !.delegateState =
               IF type = "home-button-press" THEN "homeState" ELSE "sleepState"]
  IN  [setTimeout(m1, id, "wakeState", HOLD_INTERVAL, "sleep-button-press")
         EXCEPT !.wakeTimer = id]

wakeState_enter(m, type) ==
  LET id == NewHandle(m)
      m1 == [m EXCEPT !.delegateState =
               IF type = "home-button-press" THEN "homeState" ELSE "sleepState"]
  IN  [setTimeout(m1, id, "wakeState", HOLD_INTERVAL, type)
         EXCEPT !.wakeTimer = id]

wakeState_exit(m) ==
  IF m.wakeTimer # 0
    THEN [clearTimeout(m, m.wakeTimer) EXCEPT !.wakeTimer = 0]
    ELSE m

\* state.exit(type), for the state the machine is in (baseState has none)
exit(m) ==
  CASE m.state = "homeState" -> homeState_exit(m)
    [] m.state = "sleepState" -> sleepState_exit(m)
    [] m.state = "volumeState" -> volumeState_exit(m)
    [] m.state = "wakeState" -> wakeState_exit(m)
    [] OTHER -> m

\* state.enter(type), for the state the machine is in (baseState has none)
enter(m, type) ==
  CASE m.state = "homeState" -> homeState_enter(m)
    [] m.state = "sleepState" -> sleepState_enter(m)
    [] m.state = "volumeState" -> volumeState_enter(m, type)
    [] m.state = "wakeState" -> wakeState_enter(m, type)
    [] OTHER -> m

setState(m, s, type) == enter([exit(m) EXCEPT !.state = s], type)

\* baseState.process firing home on a Home release instead of ignoring it
baseState_process_releaseFires(m, type, screen) ==
  CASE type = "home-button-press" ->
         IF ~screen
           THEN setState(fire(m, "wake"), "wakeState", type)
           ELSE setState(m, "homeState", type)
    [] type = "sleep-button-press" ->
         IF ~screen
           THEN setState(fire(m, "wake"), "wakeState", type)
           ELSE setState(m, "sleepState", type)
    [] type \in {"volume-up-button-press", "volume-down-button-press"} ->
         setState(m, "volumeState", type)
    [] type = "home-button-release" -> fire(m, "home")
    [] type \in Releases -> m
    [] OTHER -> consoleError(m)

\* baseState.process with the screen test of the Sleep press inverted
baseState_process_invertedTest(m, type, screen) ==
  CASE type = "home-button-press" ->
         IF ~screen
           THEN setState(fire(m, "wake"), "wakeState", type)
           ELSE setState(m, "homeState", type)
    [] type = "sleep-button-press" ->
         IF screen
           THEN setState(fire(m, "wake"), "wakeState", type)
           ELSE setState(m, "sleepState", type)
    [] type \in {"volume-up-button-press", "volume-down-button-press"} ->
         setState(m, "volumeState", type)
    [] type \in Releases -> m
    [] OTHER -> consoleError(m)

baseState_process(m, type, screen) ==
  CASE type = "home-button-press" ->
         IF ~screen
           THEN setState(fire(m, "wake"), "wakeState", type)
           ELSE setState(m, "homeState", type)
    [] type = "sleep-button-press" ->
         IF ~screen
           THEN setState(fire(m, "wake"), "wakeState", type)
           ELSE setState(m, "sleepState", type)
    [] type \in {"volume-up-button-press", "volume-down-button-press"} ->
         setState(m, "volumeState", type)
    [] type \in Releases -> m
    [] OTHER -> consoleError(m)

\* homeState.process with the release handled without fire('home')
homeState_process_silentRelease(m, type) ==
  CASE type = "home-button-release" -> setState(m, "baseState", type)
    [] type = "sleep-button-press" ->
         setState(fire(m, "home+sleep"), "baseState", type)
    [] type \in {"volume-up-button-press", "volume-down-button-press"} ->
         setState(fire(m, "home+volume"), "baseState", type)
    [] OTHER -> setState(consoleError(m), "baseState", type)

homeState_process(m, type) ==
  CASE type = "home-button-release" ->
         setState(fire(m, "home"), "baseState", type)
    [] type = "sleep-button-press" ->
         setState(fire(m, "home+sleep"), "baseState", type)
    [] type \in {"volume-up-button-press", "volume-down-button-press"} ->
         setState(fire(m, "home+volume"), "baseState", type)
    [] OTHER -> setState(consoleError(m), "baseState", type)

\* sleepState.process without the home-button-press case
sleepState_process_noCombo(m, type) ==
  CASE type = "sleep-button-release" ->
         setState(fire(m, "sleep"), "baseState", type)
    [] type \in {"volume-up-button-press", "volume-down-button-press"} ->
         setState(m, "volumeState", type)
    [] OTHER -> setState(consoleError(m), "baseState", type)

\* sleepState.process logging an unexpected key without setState(baseState)
sleepState_process_noReset(m, type) ==
  CASE type = "sleep-button-release" ->
         setState(fire(m, "sleep"), "baseState", type)
    [] type = "home-button-press" ->
         setState(fire(m, "home+sleep"), "baseState", type)
    [] type \in {"volume-up-button-press", "volume-down-button-press"} ->
         setState(m, "volumeState", type)
    [] OTHER -> consoleError(m)

sleepState_process(m, type) ==
  CASE type = "sleep-button-release" ->
         setState(fire(m, "sleep"), "baseState", type)
    [] type = "home-button-press" ->
         setState(fire(m, "home+sleep"), "baseState", type)
    [] type \in {"volume-up-button-press", "volume-down-button-press"} ->
         setState(m, "volumeState", type)
    [] OTHER -> setState(consoleError(m), "baseState", type)

\* volumeState.process leaving on the matching release only if the key has
\* not repeated yet
volumeState_process_staysAfterRepeat(m, type) ==
  CASE type = "home-button-press" ->
         setState(fire(m, "home+volume"), "baseState", type)
    [] type = "sleep-button-press" ->
         setState(m, "sleepState", type)
    [] type = "volume-up-button-release" ->
         IF m.direction = "volume-up-button-press"
           THEN IF ~m.repeating
                  THEN setState(fire(m, "volumeup"), "baseState", type)
                  ELSE m
           ELSE setState(consoleError(m), "baseState", type)
    [] type = "volume-down-button-release" ->
         IF m.direction = "volume-down-button-press"
           THEN IF ~m.repeating
                  THEN setState(fire(m, "volumedown"), "baseState", type)
                  ELSE m
           ELSE setState(consoleError(m), "baseState", type)
    [] OTHER -> m

volumeState_process(m, type) ==
  CASE type = "home-button-press" ->
         setState(fire(m, "home+volume"), "baseState", type)
    [] type = "sleep-button-press" ->
         setState(m, "sleepState", type)
    [] type = "volume-up-button-release" ->
         IF m.direction = "volume-up-button-press"
           THEN setState(IF ~m.repeating THEN fire(m, "volumeup") ELSE m,
                         "baseState", type)
           ELSE setState(consoleError(m), "baseState", type)
    [] type = "volume-down-button-release" ->
         IF m.direction = "volume-down-button-press"
           THEN setState(IF ~m.repeating THEN fire(m, "volumedown") ELSE m,
                         "baseState", type)
           ELSE setState(consoleError(m), "baseState", type)
    [] OTHER -> m

\* wakeState.process ignoring what is not a Home or Sleep release
wakeState_process_ignoresOthers(m, type) ==
  CASE type \in {"home-button-release", "sleep-button-release"} ->
         setState(m, "baseState", type)
    [] OTHER -> m

\* wakeState.process forwarding the releases to the delegate as well
wakeState_process_delegatesAll(m, type) ==
  CASE m.delegateState = "homeState" -> homeState_process(m, type)
    [] OTHER -> sleepState_process(m, type)

wakeState_process(m, type) ==
  CASE type \in {"home-button-release", "sleep-button-release"} ->
         setState(m, "baseState", type)
    [] m.delegateState = "homeState" -> homeState_process(m, type)
    [] OTHER -> sleepState_process(m, type)

\* state.process(type)
process(m, type, screen) ==
  CASE m.state = "baseState" -> baseState_process(m, type, screen)
    [] m.state = "homeState" -> homeState_process(m, type)
    [] m.state = "sleepState" -> sleepState_process(m, type)
    [] m.state = "volumeState" -> volumeState_process(m, type)
    [] OTHER -> wakeState_process(m, type)

\* volumeState.repeat without `this.repeating = true`
volumeState_repeat_noFlag(m) ==
  LET m2 == IF m.direction = "volume-up-button-press"
              THEN fire(m, "volumeup") ELSE fire(m, "volumedown")
      id == NewHandle(m2)
  IN  [setTimeout(m2, id, "volumeState", REPEAT_INTERVAL, "none")
         EXCEPT !.volumeTimer = id]

volumeState_repeat(m) ==
  LET m1 == [m EXCEPT !.repeating = TRUE]
      m2 == IF m1.direction = "volume-up-button-press"
              THEN fire(m1, "volumeup") ELSE fire(m1, "volumedown")
      id == NewHandle(m2)
  IN  [setTimeout(m2, id, "volumeState", REPEAT_INTERVAL, "none")
         EXCEPT !.volumeTimer = id]

\* The callbacks with homeState's firing holdhome without setState(baseState)
callback_staysInHome(m, t) ==
  CASE t.owner = "homeState" -> fire(m, "holdhome")
    [] t.owner = "sleepState" -> setState(fire(m, "holdsleep"), "baseState", "none")
    [] t.owner = "volumeState" -> volumeState_repeat(m)
    [] OTHER ->
         setState(CASE t.type = "home-button-press" -> fire(m, "holdhome")
                    [] t.type = "sleep-button-press" -> fire(m, "holdsleep")
                    [] OTHER -> m,
                  "baseState", t.type)

\* The callback a timer was armed with
callback(m, t) ==
  CASE t.owner = "homeState" -> setState(fire(m, "holdhome"), "baseState", "none")
    [] t.owner = "sleepState" -> setState(fire(m, "holdsleep"), "baseState", "none")
    [] t.owner = "volumeState" -> volumeState_repeat(m)
    [] OTHER ->
         setState(CASE t.type = "home-button-press" -> fire(m, "holdhome")
                    [] t.type = "sleep-button-press" -> fire(m, "holdsleep")
                    [] OTHER -> m,
                  "baseState", t.type)

\* The timer service takes an expiring single-shot timer off its list and
\* runs the callback
expire(m, t) == callback([m EXCEPT !.pending = @ \ {t}], t)

\* One step of the gesture log: what came in and what went out
Entry(i, d, m) == [inp |-> i, delay |-> d, out |-> m.out, err |-> m.err]

\* A press processed in baseState starts a fresh log; a log that is full
\* stops recording until the next one
NextLog(i, d, m) ==
  IF observe # "log" THEN <<>>
  ELSE IF state = "baseState" /\ i \in Presses THEN <<Entry(i, d, m)>>
  ELSE IF log = <<>> \/ Len(log) >= MaxLog THEN <<>>
  ELSE Append(log, Entry(i, d, m))

Commit(i, d, m) ==
  /\ state' = m.state
  /\ homeTimer' = m.homeTimer
  /\ sleepTimer' = m.sleepTimer
  /\ volumeTimer' = m.volumeTimer
  /\ wakeTimer' = m.wakeTimer
  /\ direction' = m.direction
  /\ repeating' = m.repeating
  /\ delegateState' = m.delegateState
  /\ pending' = m.pending
  /\ inp' = i
  /\ out' = m.out
  /\ err' = m.err
  /\ log' = NextLog(i, d, m)
  /\ logScr' = IF state = "baseState" /\ i \in Presses THEN screenEnabled
               ELSE IF log' = <<>> THEN TRUE ELSE logScr

-----------------------------------------------------------------------------
(***************************************************************************)
(* The LazyLoader.  A file path is the sequence of its characters.         *)
(***************************************************************************)

\* The paths handed to load()
Files == {<<"a", ".", "j", "s">>, <<"b", ".", "j", "s">>,
          <<"c", ".", "c", "s", "s">>}

\* The lists of at most n files, repetitions included
Lists(n) == UNION {[1..k -> Files] : k \in 0..n}

\* file.match(/\.(.*?)$/)[1]: what follows the first dot; <<>> stands for
\* the null of a path with no dot
Method(file) ==
  IF \E i \in 1..Len(file) : file[i] = "."
    THEN LET i == CHOOSE k \in 1..Len(file) :
                    file[k] = "." /\ \A j \in 1..(k - 1) : file[j] # "."
         IN  SubSeq(file, i + 1, Len(file))
    ELSE <<>>

\* The loader as one value
Loader ==
  [loaded |-> loaded, isLoading |-> isLoading, head |-> head, calls |-> calls]

\* perFileCallback(file) of the call c
perFileCallback(L, c, file) ==
  LET L1 == [L EXCEPT !.isLoading[file] = 0, !.loaded = @ \cup {file},
                      !.calls[c].loadsRemaining = @ - 1]
  IN  IF L1.calls[c].loadsRemaining = 0
        THEN [L1 EXCEPT !.calls[c].called = @ + 1]
        ELSE L1

\* _js without `this._isLoading[file] = script`
js_forgetsLoading(L, c, file) ==
  [L EXCEPT !.head = Append(@, [tag |-> "script", file |-> file,
                                listeners |-> <<[call |-> c, file |-> file]>>,
                                fired |-> FALSE])]

\* _js(file, callback): a script element with the callback as its load
\* listener
js(L, c, file) ==
  [L EXCEPT !.head = Append(@, [tag |-> "script", file |-> file,
                                listeners |-> <<[call |-> c, file |-> file]>>,
                                fired |-> FALSE]),
            !.isLoading[file] = Len(L.head) + 1]

\* _css(file, callback): a link element, and the callback at once
css(L, c, file) ==
  perFileCallback(
    [L EXCEPT !.head = Append(@, [tag |-> "link", file |-> file,
                                  listeners |-> <<>>, fired |-> FALSE])],
    c, file)

\* The body of load()'s loop for files[i], then the rest of the loop; a
\* method that is neither js nor css throws and ends the call there
RECURSIVE loadFrom(_, _, _, _)
loadFrom(L, c, files, i) ==
  IF i > Len(files) THEN L
  ELSE LET file == files[i]
       IN  IF file \in L.loaded
             THEN loadFrom(perFileCallback(L, c, file), c, files, i + 1)
           ELSE IF L.isLoading[file] # 0
             THEN loadFrom([L EXCEPT !.head[L.isLoading[file]].listeners =
                                       Append(@, [call |-> c, file |-> file])],
                           c, files, i + 1)
           ELSE IF Method(file) = <<"j", "s">>
             THEN loadFrom(js(L, c, file), c, files, i + 1)
           ELSE IF Method(file) = <<"c", "s", "s">>
             THEN loadFrom(css(L, c, file), c, files, i + 1)
           ELSE L

\* load(files, callback): a single path stands for the list of it
load(L, arg) ==
  LET files == IF arg \in Files THEN <<arg>> ELSE arg
      c == Len(L.calls) + 1
      L1 == [L EXCEPT !.calls = Append(@, [files |-> files,
                                           loadsRemaining |-> Len(files),
                                           called |-> 0])]
  IN  loadFrom(L1, c, files, 1)

\* The 'load' event of a script element: its listeners run in the order
\* they were added
RECURSIVE dispatch(_, _, _)
dispatch(L, listeners, i) ==
  IF i > Len(listeners) THEN L
  ELSE dispatch(perFileCallback(L, listeners[i].call, listeners[i].file),
                listeners, i + 1)

-----------------------------------------------------------------------------

Start ==
  /\ loaded = {}
  /\ isLoading = [f \in Files |-> 0]
  /\ head = <<>>
  /\ calls = <<>>
  /\ state = "baseState"
  /\ homeTimer = 0
  /\ sleepTimer = 0
  /\ volumeTimer = 0
  /\ wakeTimer = 0
  /\ direction = "none"
  /\ repeating = FALSE
  /\ delegateState = "none"
  /\ pending = {}
  /\ screenEnabled \in BOOLEAN
  /\ inp = "init"
  /\ out = <<>>
  /\ err = FALSE
  /\ held = {}
  /\ log = <<>>
  /\ logScr = TRUE
  /\ gesture = "idle"
  /\ since = [b \in {"home", "sleep"} |-> 0]
  /\ leftover = {}

\* setState(baseState) at load time; the steps of each gesture are logged
Init == Start /\ observe = "log"

\* The same machine with the gesture monitors running instead of the log
WatchInit == Start /\ observe = "watch"

\* The same machine with neither
PlainInit == Start /\ observe = "none"

\* Whether the period in which a button is held has fired an event: "idle"
\* with no button held, "silent" and "emitted" while one is, "lost" when the
\* last button went up and nothing was fired, "illformed" once a button was
\* pressed twice or released without a press
NextGesture(type, m) ==
  LET b == Button(type)
      down == IF type \in Presses THEN held \cup {b} ELSE held \ {b}
      fired == gesture = "emitted" \/ m.out # <<>>
  IN  IF observe # "watch" THEN gesture
      ELSE IF gesture = "illformed" \/ (type \in Presses /\ b \in held)
                \/ (type \in Releases /\ b \notin held) THEN "illformed"
      ELSE IF down = {} THEN (IF fired THEN "idle" ELSE "lost")
      ELSE IF fired THEN "emitted" ELSE "silent"

\* The short-press and hold events of Home and of Sleep fired since the
\* button's last press, counted up to 2
NextSince(type, m) ==
  IF observe # "watch" THEN since
  ELSE [b \in {"home", "sleep"} |->
         LET old == IF type = PressOf(b) THEN 0 ELSE since[b]
             new == Cardinality({i \in 1..Len(m.out) :
                       m.out[i] \in {IF b = "home" THEN "home" ELSE "sleep",
                                     IF b = "home" THEN "holdhome"
                                                   ELSE "holdsleep"}})
         IN  IF old + new > 2 THEN 2 ELSE old + new]

\* The buttons that took part in a fired home+sleep or home+volume and have
\* not been released since
NextLeftover(type, m) ==
  LET b == Button(type)
      down == IF type \in Presses THEN held \cup {b} ELSE held \ {b}
      took == IF \E i \in 1..Len(m.out) : m.out[i] = "home+sleep"
                THEN {"home", "sleep"}
              ELSE IF \E i \in 1..Len(m.out) : m.out[i] = "home+volume"
                THEN {"home", IF b = "home" THEN Button(direction) ELSE b}
              ELSE {}
  IN  IF observe # "watch" THEN leftover
      ELSE ((leftover \ {b}) \cup took) \cap down

\* The mozChromeEvent listener: one raw signal, handled to completion
Signal(type) ==
  /\ Commit(type, 0, process(Machine, type, screenEnabled))
  /\ held' = IF type \in Presses THEN held \cup {Button(type)}
             ELSE held \ {Button(type)}
  /\ gesture' = NextGesture(type, process(Machine, type, screenEnabled))
  /\ since' = NextSince(type, process(Machine, type, screenEnabled))
  /\ leftover' = NextLeftover(type, process(Machine, type, screenEnabled))
  /\ UNCHANGED <<screenEnabled, observe>>
  /\ UNCHANGED loaderVars

\* A pending timer expires and its callback runs to completion
TimerFire(t) ==
  /\ t \in pending
  /\ Commit("timer", t.delay, expire(Machine, t))
  /\ gesture' = IF observe = "watch" /\ gesture = "silent" /\ expire(Machine, t).out # <<>>
                  THEN "emitted" ELSE gesture
  /\ since' = NextSince("timer", expire(Machine, t))
  /\ UNCHANGED <<screenEnabled, held, observe, leftover>>
  /\ UNCHANGED loaderVars

\* The display is switched on or off by the screen manager
ScreenChange ==
  /\ screenEnabled' = ~screenEnabled
  /\ inp' = "screen"
  /\ out' = <<>>
  /\ err' = FALSE
  /\ UNCHANGED <<state, homeTimer, sleepTimer, volumeTimer, wakeTimer,
                 direction, repeating, delegateState, pending, held, log,
                 logScr, observe, gesture, since, leftover>>
  /\ UNCHANGED loaderVars

Next ==
  \/ \E type \in Signals : Signal(type)
  \/ \E t \in pending : TimerFire(t)
  \/ ScreenChange

Spec == Init /\ [][Next]_vars

Watch == WatchInit /\ [][Next]_vars

\* A button that is held is released at some point
Release(b) == b \in held /\ Signal(ReleaseOf(b))

\* A timer that stays armed fires at some point
Expiry == \E t \in pending : TimerFire(t)

\* The machine with timers that fire and buttons that are let go
Live ==
  /\ PlainInit
  /\ [][Next]_vars
  /\ WF_vars(Expiry)
  /\ \A b \in Buttons : WF_vars(Release(b))

\* A call LazyLoader.load(arg, callback), run to completion
Load(arg) ==
  /\ Len(calls) < MaxCalls
  /\ LET L == load(Loader, arg)
     IN  /\ loaded' = L.loaded
         /\ isLoading' = L.isLoading
         /\ head' = L.head
         /\ calls' = L.calls
  /\ UNCHANGED buttonVars

\* The script element e has loaded: its 'load' event is dispatched
ScriptLoad(e) ==
  /\ e \in 1..Len(head)
  /\ head[e].tag = "script"
  /\ ~head[e].fired
  /\ LET L == dispatch([Loader EXCEPT !.head[e].fired = TRUE],
                       head[e].listeners, 1)
     IN  /\ loaded' = L.loaded
         /\ isLoading' = L.isLoading
         /\ head' = L.head
         /\ calls' = L.calls
  /\ UNCHANGED buttonVars

LoaderNext ==
  \/ \E arg \in Files \cup Lists(MaxList) : Load(arg)
  \/ \E e \in 1..Len(head) : ScriptLoad(e)

\* The LazyLoader alone
LazyLoader == PlainInit /\ [][LoaderNext]_vars

-----------------------------------------------------------------------------
\* Names used by the properties below

ShortEvent(b) == IF b = "home" THEN "home" ELSE "sleep"
HoldEvent(b) == IF b = "home" THEN "holdhome" ELSE "holdsleep"
VolumeEvent(b) == IF b = "volume-up" THEN "volumeup" ELSE "volumedown"

\* The timer field of the state object s
TimerOf(s) ==
  CASE s = "homeState" -> homeTimer
    [] s = "sleepState" -> sleepTimer
    [] s = "volumeState" -> volumeTimer
    [] s = "wakeState" -> wakeTimer
    [] OTHER -> 0

\* The log is the gesture <<press, then the inputs in rest>> so far
LogStarts(first, rest) ==
  /\ Len(log) >= 1 + Len(rest)
  /\ log[1].inp = first
  /\ \A i \in 1..Len(rest) : log[i + 1].inp = rest[i]

LogIs(first, rest) == LogStarts(first, rest) /\ Len(log) = 1 + Len(rest)

-----------------------------------------------------------------------------
\* C1: in every reachable state at most one timer is pending, and it is the
\* one the active state armed and holds in its timer field; no timer is
\* pending in baseState, and a state that has been exited holds no timer.
C1_TimerOwnedByActiveState ==
  /\ Cardinality(pending) <= 1
  /\ \A t \in pending : t.owner = state /\ t.id = TimerOf(state)
  /\ state = "baseState" => pending = {}
  /\ \A s \in {"homeState", "sleepState", "volumeState", "wakeState"} :
       s # state => TimerOf(s) = 0

\* C1 witness: Volume was left for Sleep by setState; the only pending timer
\* is the hold timer sleepState armed
C1_Witness ==
  /\ LogIs("volume-up-button-press", <<"sleep-button-press">>)
  /\ state = "sleepState"
  /\ \E t \in pending : t.owner = "sleepState" /\ t.delay = HOLD_INTERVAL

\* C2: from baseState with the display on, a Home (Sleep) press followed
\* directly by its release emits nothing at the press, exactly the home
\* (sleep) event at the release, and ends in baseState.
C2_Tap ==
  \A b \in {"home", "sleep"} :
    (logScr /\ LogIs(PressOf(b), <<ReleaseOf(b)>>)) =>
      /\ log[1].out = <<>>
      /\ log[2].out = <<ShortEvent(b)>>
      /\ state = "baseState"

C2_Witness ==
  /\ logScr /\ LogIs("sleep-button-press", <<"sleep-button-release">>)
  /\ out = <<"sleep">>

\* C3: from baseState with the display on, a Home (Sleep) press followed
\* directly by the expiry of the hold timer emits exactly one holdhome
\* (holdsleep), at the expiry, and returns to baseState; the release that
\* follows is ignored: no event, no error, still baseState.
C3_Hold ==
  \A b \in {"home", "sleep"} :
    (logScr /\ LogStarts(PressOf(b), <<"timer">>)) =>
      /\ log[1].out = <<>>
      /\ log[2].out = <<HoldEvent(b)>>
      /\ log[2].delay = HOLD_INTERVAL
      /\ Len(log) = 2 => (state = "baseState" /\ pending = {})
      /\ LogStarts(PressOf(b), <<"timer", ReleaseOf(b)>>) =>
           /\ log[3].out = <<>>
           /\ ~log[3].err
           /\ Len(log) = 3 => state = "baseState"

C3_Witness ==
  /\ logScr
  /\ LogIs("home-button-press", <<"timer", "home-button-release">>)
  /\ log[2].out = <<"holdhome">>

\* C4: from baseState with the display on, Home and Sleep pressed one after
\* the other in either order, with nothing in between, emit nothing at the
\* first press and exactly home+sleep at the second, which returns the machine
\* to baseState with no timer pending; the two releases that follow, in
\* either order, emit nothing and leave the machine in baseState.
C4_HomeSleepCombo ==
  \A a, b \in {"home", "sleep"} :
    (a # b /\ logScr /\ LogStarts(PressOf(a), <<PressOf(b)>>)) =>
      /\ log[1].out = <<>>
      /\ log[2].out = <<"home+sleep">>
      /\ Len(log) = 2 => (state = "baseState" /\ pending = {})
      /\ \A x, y \in {"home", "sleep"} :
           /\ LogStarts(PressOf(a), <<PressOf(b), ReleaseOf(x)>>) =>
                /\ log[3].out = <<>>
                /\ Len(log) = 3 => (state = "baseState" /\ pending = {})
           /\ (x # y /\ LogStarts(PressOf(a),
                                  <<PressOf(b), ReleaseOf(x), ReleaseOf(y)>>)) =>
                /\ log[4].out = <<>>
                /\ Len(log) = 4 => (state = "baseState" /\ pending = {})

C4_Witness ==
  /\ logScr
  /\ LogIs("sleep-button-press", <<"home-button-press",
                                   "sleep-button-release", "home-button-release">>)
  /\ log[2].out = <<"home+sleep">>
  /\ state = "baseState"

\* The events of the whole log, in order
RECURSIVE LogEvents(_)
LogEvents(n) == IF n = 0 THEN <<>> ELSE LogEvents(n - 1) \o log[n].out

\* C5: a volume press taken in baseState, then n >= 1 expiries of the volume
\* timer, then the matching release: nothing is emitted at the press, one
\* event of the pressed direction at each expiry (the first timer armed
\* with REPEAT_DELAY, the later ones with REPEAT_INTERVAL), nothing at the
\* release, n events in all, and the machine is back in baseState.
C5_VolumeAutorepeat ==
  \A b \in {"volume-up", "volume-down"} :
    \A n \in 1..Len(log) :
      (/\ log[1].inp = PressOf(b)
       /\ n >= 2
       /\ \A i \in 2..n : log[i].inp = "timer") =>
         /\ log[1].out = <<>>
         /\ log[n].out = <<VolumeEvent(b)>>
         /\ log[n].delay = IF n = 2 THEN REPEAT_DELAY ELSE REPEAT_INTERVAL
         /\ Len(log) = n =>
              /\ state = "volumeState"
              /\ \E t \in pending : t.delay = REPEAT_INTERVAL
         /\ (Len(log) > n /\ log[n + 1].inp = ReleaseOf(b)) =>
              /\ log[n + 1].out = <<>>
              /\ LogEvents(n + 1) = [i \in 1..(n - 1) |-> VolumeEvent(b)]
              /\ Len(log) = n + 1 => (state = "baseState" /\ pending = {})

C5_Witness ==
  /\ LogIs("volume-up-button-press",
           <<"timer", "timer", "volume-up-button-release">>)
  /\ LogEvents(4) = <<"volumeup", "volumeup">>
  /\ state = "baseState"

\* C6: a volume press taken in baseState followed directly by the matching
\* release emits nothing at the press and exactly one event of that
\* direction at the release, and ends in baseState.
C6_VolumeTap ==
  \A b \in {"volume-up", "volume-down"} :
    LogStarts(PressOf(b), <<ReleaseOf(b)>>) =>
      /\ log[1].out = <<>>
      /\ log[2].out = <<VolumeEvent(b)>>
      /\ Len(log) = 2 => (state = "baseState" /\ pending = {})

C6_Witness ==
  /\ LogIs("volume-down-button-press", <<"volume-down-button-release">>)
  /\ out = <<"volumedown">>
  /\ state = "baseState"

Fired(ev) == \E i \in 1..Len(out') : out'[i] = ev

\* C7: a step emits wake exactly when it handles a Home or Sleep press in
\* baseState with the display off; that step emits the one wake event and
\* nothing else, and moves the machine to wakeState.
C7_WakeExactlyOnPressWhileOff ==
  [][LET wakes == /\ state = "baseState"
                  /\ ~screenEnabled
                  /\ inp' \in {"home-button-press", "sleep-button-press"}
     IN  /\ wakes => (out' = <<"wake">> /\ state' = "wakeState")
         /\ ~wakes => ~Fired("wake")]_vars

C7_Witness ==
  /\ inp = "sleep-button-press"
  /\ out = <<"wake">>
  /\ state = "wakeState"
  /\ ~logScr /\ Len(log) = 1

\* C8: a Home or Sleep press taken in baseState with the display off,
\* followed directly by a Home or Sleep release, emits wake at the press and
\* nothing at the release; the machine is then in baseState with the hold
\* timer cancelled, so the next step is never a timer expiry.
C8_WakePressIsNoTap ==
  \A b \in {"home", "sleep"} :
    \A r \in {"home-button-release", "sleep-button-release"} :
      (~logScr /\ LogStarts(PressOf(b), <<r>>)) =>
        /\ log[1].out = <<"wake">>
        /\ log[2].out = <<>>
        /\ Len(log) = 2 =>
             (state = "baseState" /\ pending = {} /\ wakeTimer = 0)
        /\ Len(log) >= 3 => log[3].inp # "timer"

C8_Witness ==
  /\ ~logScr
  /\ LogIs("home-button-press", <<"home-button-release">>)
  /\ LogEvents(2) = <<"wake">>
  /\ state = "baseState"

\* C9: a Home (Sleep) press taken in baseState with the display off,
\* followed directly by the expiry of the hold timer, emits exactly one
\* event at the expiry, holdhome for Home and holdsleep for Sleep, and
\* returns the machine to baseState.
C9_WakeThenHold ==
  \A b \in {"home", "sleep"} :
    (~logScr /\ LogStarts(PressOf(b), <<"timer">>)) =>
      /\ log[1].out = <<"wake">>
      /\ log[2].out = <<HoldEvent(b)>>
      /\ log[2].delay = HOLD_INTERVAL
      /\ Len(log) = 2 => (state = "baseState" /\ pending = {})

C9_Witness ==
  /\ ~logScr
  /\ LogIs("home-button-press", <<"timer">>)
  /\ out = <<"holdhome">>
  /\ state = "baseState"

\* C10 as stated: a second press of a button that is already pressed is
\* logged and leaves the machine in baseState, whatever the state.
C10_SecondPressAlwaysResets ==
  [][(inp' \in Presses /\ Button(inp') \in held) =>
       (err' /\ state' = "baseState")]_vars

\* The signals the state (for wakeState, with its delegate) treats as
\* unexpected
Unexpected(s, delegate, dir) ==
  LET notHome == Signals \ {"home-button-release", "sleep-button-press",
                            "volume-up-button-press", "volume-down-button-press"}
      notSleep == Signals \ {"sleep-button-release", "home-button-press",
                             "volume-up-button-press", "volume-down-button-press"}
      ownRelease == {"home-button-release", "sleep-button-release"}
  IN  CASE s = "homeState" -> notHome
        [] s = "sleepState" -> notSleep
        [] s = "wakeState" ->
             (IF delegate = "homeState" THEN notHome ELSE notSleep) \ ownRelease
        [] s = "volumeState" ->
             IF dir = "volume-up-button-press"
               THEN {"volume-down-button-release"}
               ELSE {"volume-up-button-release"}
        [] OTHER -> {}

\* The press of the button that put the machine in the state
OwnPress(s, delegate) ==
  CASE s = "homeState" -> "home-button-press"
    [] s = "sleepState" -> "sleep-button-press"
    [] s = "wakeState" /\ delegate = "homeState" -> "home-button-press"
    [] s = "wakeState" -> "sleep-button-press"
    [] OTHER -> "none"

\* C10, amended: in homeState, sleepState and wakeState a signal the state
\* has no case for, in particular a second press of the state's own button,
\* is logged and leaves the machine in baseState; in volumeState only the
\* release of the other volume direction is, while a second volume press or
\* a Home/Sleep release is ignored without a log and the machine stays in
\* volumeState; in baseState nothing is logged and every press, also of a
\* button still held, starts a new gesture.
C10_UnexpectedInput ==
  [][inp' \in Signals =>
       /\ inp' \in Unexpected(state, delegateState, direction) =>
            (err' /\ state' = "baseState")
       /\ inp' \notin Unexpected(state, delegateState, direction) => ~err'
       /\ inp' = OwnPress(state, delegateState) =>
            (err' /\ state' = "baseState")
       /\ (state = "volumeState"
              /\ inp' \in {"volume-up-button-press", "volume-down-button-press",
                            "home-button-release", "sleep-button-release"}) =>
            /\ out' = <<>>
            /\ UNCHANGED <<state, volumeTimer, direction, repeating, pending>>
       /\ (state = "baseState" /\ inp' \in Presses) =>
            state' # "baseState"]_vars

\* C10 witness: Home pressed twice in a row; the second press, taken in
\* homeState, was logged and reset the machine
C10_Witness ==
  /\ LogIs("home-button-press", <<"home-button-press">>)
  /\ inp = "home-button-press"
  /\ "home" \in held
  /\ err
  /\ out = <<>>
  /\ state = "baseState"

\* C11: a step that takes the fault path (console.error) fires no event and
\* leaves the machine in baseState with no timer pending and every state's
\* timer field cleared.
C11_FaultPathIsSilent ==
  err =>
    /\ inp \in Signals
    /\ out = <<>>
    /\ state = "baseState"
    /\ pending = {}
    /\ homeTimer = 0 /\ sleepTimer = 0 /\ volumeTimer = 0 /\ wakeTimer = 0

\* C11 witness: the fault path taken in sleepState, whose hold timer was
\* armed by the press before
C11_Witness ==
  /\ logScr
  /\ LogIs("sleep-button-press", <<"volume-up-button-release">>)
  /\ err
  /\ state = "baseState"

\* C12 as stated: in volumeState the release of the other direction is
\* ignored: no event, and the state, direction, repeat flag and timer stay
\* as they are.
C12_OppositeReleaseIgnored ==
  [][(/\ state = "volumeState"
      /\ \/ direction = "volume-up-button-press"
             /\ inp' = "volume-down-button-release"
         \/ direction = "volume-down-button-press"
             /\ inp' = "volume-up-button-release") =>
       /\ out' = <<>>
       /\ ~err'
       /\ UNCHANGED <<state, direction, repeating, volumeTimer, pending>>]_vars

\* C13 as stated: with every button alternating press and release from the
\* start, a period in which some button is held has fired at least one
\* event by the time the last button is released.
C13_NoGestureLost == gesture # "lost"

\* C14: with every armed timer that stays armed firing and every held
\* button released at some point, the machine is in baseState again after
\* every departure from it.
C14_AlwaysBackToBase == (state # "baseState") ~> (state = "baseState")

\* C14 witness: the machine left baseState for volumeState, autorepeated
\* and came back on the release
C14_Witness ==
  /\ state = "baseState"
  /\ inp \in {"volume-up-button-release", "volume-down-button-release"}
  /\ repeating
  /\ out = <<>> /\ ~err
  /\ held = {}

VolumePresses == {"volume-up-button-press", "volume-down-button-press"}

\* C15: a Sleep press handled in volumeState fires nothing, cancels the
\* autorepeat timer and leaves exactly one pending timer, the hold timer
\* sleepState arms on entry; a volume event is fired only by a step taken in
\* volumeState, which only a volume press enters, so none follows until a new
\* volume press; and the expiry of that hold timer fires exactly holdsleep
\* and returns to baseState.
C15_VolumeToSleep ==
  [][/\ (state = "volumeState" /\ inp' = "sleep-button-press") =>
          /\ out' = <<>> /\ ~err'
          /\ state' = "sleepState"
          /\ volumeTimer' = 0
          /\ \A t \in pending' : t.owner # "volumeState"
          /\ \E t \in pending' :
               /\ pending' = {t}
               /\ t.owner = "sleepState"
               /\ t.delay = HOLD_INTERVAL
               /\ t.id = sleepTimer'
     /\ (Fired("volumeup") \/ Fired("volumedown")) => state = "volumeState"
     /\ (state # "volumeState" /\ state' = "volumeState") =>
          inp' \in VolumePresses
     /\ (state = "sleepState" /\ inp' = "timer") =>
          (out' = <<"holdsleep">> /\ state' = "baseState" /\ pending' = {})
    ]_vars

\* C15 witness: volume press, Sleep press, then the hold timer fired
C15_Witness ==
  /\ LogIs("volume-up-button-press", <<"sleep-button-press", "timer">>)
  /\ log[3].delay = HOLD_INTERVAL
  /\ LogEvents(3) = <<"holdsleep">>
  /\ state = "baseState"

\* The machine in the delegate state instead of wakeState: the state the
\* same press leads to with the display on, holding the same timer handle
AsDelegate(m) ==
  LET d == m.delegateState
      h == [m EXCEPT !.state = d, !.wakeTimer = 0,
                     !.pending = {[t EXCEPT !.owner = d, !.type = "none"] :
                                    t \in @}]
  IN  IF d = "homeState" THEN [h EXCEPT !.homeTimer = m.wakeTimer]
                         ELSE [h EXCEPT !.sleepTimer = m.wakeTimer]

\* C16: in wakeState a signal other than the Home and Sleep releases has
\* the events, the fault log, the next state and the timers that the
\* delegate state (homeState after a Home wake, sleepState after a Sleep
\* wake) has for it; the wake timer is cancelled, no timer of homeState or
\* sleepState is armed, and the machine is not in wakeState afterwards.
C16_WakeForwards ==
  [][(/\ state = "wakeState"
      /\ inp' \in Signals \ {"home-button-release", "sleep-button-release"}) =>
       LET r == process(AsDelegate(Machine), inp', screenEnabled)
       IN  /\ delegateState \in {"homeState", "sleepState"}
           /\ out' = r.out
           /\ err' = r.err
           /\ state' = r.state
           /\ pending' = r.pending
           /\ <<direction', repeating', volumeTimer'>> =
                <<r.direction, r.repeating, r.volumeTimer>>
           /\ state' # "wakeState"
           /\ wakeTimer' = 0 /\ homeTimer' = 0 /\ sleepTimer' = 0
           /\ \A t \in pending' : t.owner = "volumeState"]_vars

\* C16 witness: woken by Sleep, then a volume press forwarded to
\* sleepState.process, which enters volumeState
C16_Witness ==
  /\ ~logScr
  /\ LogIs("sleep-button-press", <<"volume-down-button-press">>)
  /\ LogEvents(2) = <<"wake">>
  /\ state = "volumeState"
  /\ wakeTimer = 0

\* C17: between one press of Home (Sleep) and the next, at most one event
\* among home and holdhome (sleep and holdsleep) is fired, however the
\* release and the expiry of the hold timer are ordered.
C17_NoDuplicate == \A b \in {"home", "sleep"} : since[b] <= 1

\* C17 witness: the hold timer won the race; the Sleep release that came
\* after it fired nothing
C17_Witness ==
  /\ since["sleep"] = 1
  /\ inp = "sleep-button-release"
  /\ out = <<>> /\ ~err
  /\ state = "baseState"
  /\ gesture = "idle"

\* C18 as stated: with every button alternating press and release, the
\* release of a button left held by a fired home+sleep or home+volume fires
\* no event, takes no fault path and leaves the state and its timer (the
\* gesture begun after the combination) as they are, in whatever state it
\* arrives.
C18_LeftoverReleaseHarmless ==
  [][(/\ inp' \in Releases
      /\ Button(inp') \in leftover
      /\ gesture' # "illformed") =>
       /\ out' = <<>>
       /\ ~err'
       /\ UNCHANGED <<state, pending>>]_vars

\* The elements created for the file f
ElementsOf(f) == {e \in 1..Len(head) : head[e].file = f}

\* C19 as stated: the callback of a load() call runs at most once, only
\* with every listed file marked loaded, and has run once every listed file
\* is marked loaded (every script started has fired its load event).
C19_CallbackExactlyOnce ==
  \A c \in 1..Len(calls) :
    LET done == \A i \in 1..Len(calls[c].files) : calls[c].files[i] \in loaded
    IN  /\ calls[c].called <= 1
        /\ calls[c].called = 1 => done
        /\ done => calls[c].called = 1

\* C20: at most one element is created for a path, no path is both loading
\* and loaded, and a path marked loaded stays so.
C20_NeverLoadsTwice ==
  /\ [](\A f \in Files :
          /\ Cardinality(ElementsOf(f)) <= 1
          /\ ~(isLoading[f] # 0 /\ f \in loaded))
  /\ [][loaded \subseteq loaded']_vars

\* C20 witness: two calls asked for the same script, one element was
\* created, and it has loaded
C20_Witness ==
  /\ Len(calls) = 2
  /\ \E f \in Files :
       /\ Method(f) = <<"j", "s">>
       /\ \A c \in 1..2 : \E i \in 1..Len(calls[c].files) : calls[c].files[i] = f
       /\ Cardinality(ElementsOf(f)) = 1
       /\ f \in loaded
       /\ isLoading[f] = 0

====
